---- MODULE Spec2Model ----
(***************************************************************************)
(* The Streamlit frontend of the stock market finance application          *)
(* (src/app.py): the API gateway fetch_api, the navigation in main and the *)
(* five screen handlers.  One script run (main, top to bottom) is one      *)
(* action; what it sends to the backend and what it renders is recorded,   *)
(* in order, in log.                                                       *)
(***************************************************************************)
EXTENDS Integers, Sequences, FiniteSets, TLC

VARIABLES
  phase,    \* "blank": a script run is about to start; "rendered": it ended
  page,     \* the page chosen in the sidebar selectbox of the last run
  widgets,  \* the values of the widgets the last run read
  log,      \* the gateway calls and rendering calls of the last run, in order
  raised,   \* TRUE when the last run ended in an uncaught exception
  call      \* the gateway harness: one call of fetch_api and its result

vars == <<phase, page, widgets, log, raised, call>>

(***************************************************************************)
(* Bounds of the model.                                                    *)
(***************************************************************************)
MaxStocks == 2    \* longest stock list the backend returns
MaxRows == 3      \* longest list of date-stamped rows the backend returns
MaxSymbolLen == 2 \* longest text typed into a symbol field

(***************************************************************************)
(* JSON values, as requests' response.json() decodes them to Python values.*)
(***************************************************************************)
JNull == [type |-> "null"]
JBool(b) == [type |-> "bool", val |-> b]
JNum(n) == [type |-> "num", num |-> n]
JStr(s) == [type |-> "str", text |-> s]
JList(s) == [type |-> "list", items |-> s]
JObj(f) == [type |-> "obj", fields |-> f]
\* a body that is not JSON: response.json() raises on it
NotJson == [type |-> "notjson"]

\* A calendar date as the ISO-8601 string "YYYY-MM-DD"; iso holds its fields.
IsoDate(d) == [type |-> "str", iso |-> d]
\* text typed into a text_input, a sequence of characters
PyStr(chars) == [type |-> "str", chars |-> chars]

\* The texts "error" is a substring of (Python: "error" in text).
ContainsErrorText == {"error", "server error"}

\* Python `"error" in x` raises TypeError unless x is a container or a string.
CanContain(x) == x.type \in {"obj", "list", "str"}

\* Python `"error" in x`: a key of a dict, an element of a list, a substring
\* of a string.
HasError(x) ==
  CASE x.type = "obj" -> "error" \in DOMAIN x.fields
    [] x.type = "list" -> \E i \in DOMAIN x.items : x.items[i] = JStr("error")
    [] x.type = "str" -> "text" \in DOMAIN x /\ x.text \in ContainsErrorText
    [] OTHER -> FALSE

\* Python truth value of a decoded JSON value.
Truthy(x) ==
  CASE x.type = "null" -> FALSE
    [] x.type = "bool" -> x.val
    [] x.type = "num" -> x.num # 0
    [] x.type = "str" -> IF "text" \in DOMAIN x THEN x.text # ""
                         ELSE IF "chars" \in DOMAIN x THEN x.chars # <<>>
                         ELSE TRUE
    [] x.type = "list" -> x.items # <<>>
    [] x.type = "obj" -> DOMAIN x.fields # {}
    [] OTHER -> TRUE

\* dict.get(key): None when the key is absent.
Get(obj, key) == IF key \in DOMAIN obj.fields THEN obj.fields[key] ELSE JNull

IsList(x) == x.type = "list"

(***************************************************************************)
(* The API gateway.                                                        *)
(***************************************************************************)
API_BASE_URL == "http://localhost:8000/api/v1"

CannotConnectText == "Cannot connect to backend API. Make sure the server is running."
\* str(e) of the exceptions fetch_api catches
JsonDecodeText == "Expecting value: line 1 column 1 (char 0)"
TimeoutText == "Read timed out."
AttributeErrorText(type) ==
  CASE type = "list" -> "'list' object has no attribute 'get'"
    [] type = "null" -> "'NoneType' object has no attribute 'get'"
    [] type = "num" -> "'int' object has no attribute 'get'"
    [] type = "bool" -> "'bool' object has no attribute 'get'"
    [] OTHER -> "'str' object has no attribute 'get'"

ErrorValue(msg) == JObj([error |-> msg])
SuccessMarker == JObj([success |-> JBool(TRUE)])

\* What the requests library gives back for one request: an HTTP response
\* (status, body), a ConnectionError, or another exception (a timeout).
HttpResponse(status, body) == [kind |-> "http", status |-> status, body |-> body]
ConnectionError == [kind |-> "connection_error", status |-> 0, body |-> NotJson]
OtherException == [kind |-> "exception", status |-> 0, body |-> NotJson]

NoData == JNull

\* The request fetch_api sends: GET passes data as query parameters, POST and
\* PUT as a JSON body, DELETE passes nothing.
Request(endpoint, method, data) ==
  [url |-> <<API_BASE_URL, endpoint>>,
   method |-> method,
   params |-> IF method = "GET" THEN data ELSE NoData,
   json |-> IF method \in {"POST", "PUT"} THEN data ELSE NoData]

\* response.json().get("detail", "API Error"), or the exception it raises
ErrorOfBody(body) ==
  IF body = NotJson THEN ErrorValue(JStr(JsonDecodeText))
  ELSE IF body.type # "obj" THEN ErrorValue(JStr(AttributeErrorText(body.type)))
  ELSE IF "detail" \in DOMAIN body.fields THEN ErrorValue(body.fields.detail)
  ELSE ErrorValue(JStr("API Error"))

\* The status-code policy of fetch_api dropped: every status read as success.
fetch_api_AnyStatusSucceeds(method, response) ==
  IF method \notin {"GET", "POST", "PUT", "DELETE"} THEN ErrorValue(JStr("Invalid method"))
  ELSE IF response.kind = "connection_error" THEN ErrorValue(JStr(CannotConnectText))
  ELSE IF response.kind = "exception" THEN ErrorValue(JStr(TimeoutText))
  ELSE IF response.body = NotJson THEN ErrorValue(JStr(JsonDecodeText))
  ELSE response.body

\* fetch_api without its last handler (except Exception): what escapes it.
Escaped == [type |-> "raised"]
fetch_api_NoCatchAll(method, response) ==
  IF method \notin {"GET", "POST", "PUT", "DELETE"} THEN ErrorValue(JStr("Invalid method"))
  ELSE IF response.kind = "connection_error" THEN ErrorValue(JStr(CannotConnectText))
  ELSE IF response.kind = "exception" THEN Escaped
  ELSE IF response.status \in {200, 201} THEN
    IF response.body = NotJson THEN Escaped ELSE response.body
  ELSE IF response.status = 204 THEN SuccessMarker
  ELSE IF response.body = NotJson \/ response.body.type # "obj" THEN Escaped
  ELSE ErrorOfBody(response.body)

\* fetch_api(endpoint, method, data), given what the request comes back with.
\* The endpoint and the data shape the request only (see Request).
fetch_api(method, response) ==
  IF method \notin {"GET", "POST", "PUT", "DELETE"} THEN ErrorValue(JStr("Invalid method"))
  ELSE IF response.kind = "connection_error" THEN ErrorValue(JStr(CannotConnectText))
  ELSE IF response.kind = "exception" THEN ErrorValue(JStr(TimeoutText))
  ELSE IF response.status \in {200, 201} THEN
    IF response.body = NotJson THEN ErrorValue(JStr(JsonDecodeText))
    ELSE response.body
  ELSE IF response.status = 204 THEN SuccessMarker
  ELSE ErrorOfBody(response.body)

(***************************************************************************)
(* The state before a script run, and the end of a run: Streamlit runs the *)
(* script again from the top on the next interaction (or on st.rerun()),   *)
(* with nothing of the last run's output kept.                             *)
(***************************************************************************)
NoCall ==
  [endpoint |-> "none", method |-> "none", data |-> NoData,
   response |-> ConnectionError, request |-> NoData, result |-> JNull]
NoWidgets == [button |-> "none"]

Init ==
  /\ phase = "blank"
  /\ page = "Dashboard"
  /\ widgets = NoWidgets
  /\ log = <<>>
  /\ raised = FALSE
  /\ call = NoCall

Rerun ==
  /\ phase = "rendered"
  /\ phase' = "blank"
  /\ page' = "Dashboard"
  /\ widgets' = NoWidgets
  /\ log' = <<>>
  /\ raised' = FALSE
  /\ call' = NoCall

(***************************************************************************)
(* The gateway on its own: fetch_api called once with any method, on any   *)
(* outcome of the request.                                                 *)
(***************************************************************************)
Methods == {"GET", "POST", "PUT", "DELETE", "PATCH"}
Statuses == {200, 201, 202, 204, 400, 404, 422, 500}
GatewayBodies ==
  {NotJson, JNull, JNum(5), JStr("ok"), JList(<<>>), JList(<<JNum(1)>>),
   JObj(<<>>),
   JObj([detail |-> JStr("Stock not found")]),
   JObj([detail |-> JList(<<JStr("field required")>>)]),
   JObj([message |-> JStr("not found")]),
   JObj([error |-> JStr("boom")]),
   JObj([symbol |-> JStr("AAPL"), name |-> JStr("Apple")])}
GatewayResponses ==
  {HttpResponse(s, b) : s \in Statuses, b \in GatewayBodies}
    \cup {ConnectionError, OtherException}
GatewayEndpoints == {"/stocks/", "/prices/fetch"}
GatewayData == {NoData, JObj([symbol |-> JStr("AAPL"), period |-> JStr("1mo")])}

GatewayCall ==
  /\ phase = "blank"
  /\ \E endpoint \in GatewayEndpoints, method \in Methods,
        data \in GatewayData, response \in GatewayResponses :
       call' = [endpoint |-> endpoint, method |-> method, data |-> data,
                response |-> response,
                request |-> IF method \in {"GET", "POST", "PUT", "DELETE"}
                            THEN Request(endpoint, method, data) ELSE NoData,
                result |-> fetch_api(method, response)]
  /\ phase' = "rendered"
  /\ UNCHANGED <<page, widgets, log, raised>>

NextGateway == GatewayCall \/ Rerun

SpecGateway == Init /\ [][NextGateway]_vars

KnownMethod(m) == m \in {"GET", "POST", "PUT", "DELETE"}
Called == call.method # "none"
IsErrorMapping(x) == x.type = "obj" /\ "error" \in DOMAIN x.fields

\* C1: for a call with method GET, POST, PUT or DELETE whose response has
\* status 200 or 201 and a body that decodes as JSON, fetch_api returns the
\* decoded body; for status 204 it returns {"success": True} whatever the body.
C1_SuccessResult ==
  (Called /\ KnownMethod(call.method) /\ call.response.kind = "http") =>
    /\ (call.response.status \in {200, 201} /\ call.response.body # NotJson)
          => call.result = call.response.body
    /\ call.response.status = 204
          => call.result = [type |-> "obj", fields |-> [success |-> JBool(TRUE)]]

C1_Witness ==
  /\ Called
  /\ call.method = "PUT"
  /\ call.response.kind = "http"
  /\ call.response.status = 201
  /\ call.response.body = JObj([symbol |-> JStr("AAPL"), name |-> JStr("Apple")])
  /\ call.result = call.response.body

\* C2: for a response whose status is none of 200, 201, 204, fetch_api raises
\* nothing and returns a mapping with an "error" key: the body's detail when
\* the body is an object that has one, "API Error" when the object has none,
\* the exception's text when the body is not JSON or not an object; a
\* connection failure and an unknown method give an error mapping too.
C2_ExceptionTexts ==
  {"Expecting value: line 1 column 1 (char 0)",
   "'list' object has no attribute 'get'",
   "'NoneType' object has no attribute 'get'",
   "'int' object has no attribute 'get'",
   "'str' object has no attribute 'get'"}

C2_ErrorResult ==
  Called =>
    /\ call.result # Escaped
    /\ ~KnownMethod(call.method) => IsErrorMapping(call.result)
    /\ (KnownMethod(call.method) /\ call.response.kind = "connection_error")
          => IsErrorMapping(call.result)
    /\ (KnownMethod(call.method) /\ call.response.kind = "http"
          /\ call.response.status \notin {200, 201, 204}) =>
         LET body == call.response.body
             isObj == body # NotJson /\ body.type = "obj"
         IN /\ IsErrorMapping(call.result)
            /\ (isObj /\ "detail" \in DOMAIN body.fields)
                  => call.result.fields.error = body.fields.detail
            /\ (isObj /\ "detail" \notin DOMAIN body.fields)
                  => call.result.fields.error = JStr("API Error")
            /\ ~isObj
                  => /\ call.result.fields.error.type = "str"
                     /\ call.result.fields.error.text \in C2_ExceptionTexts

C2_Witness ==
  /\ Called
  /\ call.method = "DELETE"
  /\ call.response.kind = "http"
  /\ call.response.status = 404
  /\ call.response.body = JList(<<JNum(1)>>)
  /\ call.result = ErrorValue(JStr("'list' object has no attribute 'get'"))

(***************************************************************************)
(* What a script run records: the gateway calls it makes and the Streamlit *)
(* calls that put something on the page.                                   *)
(***************************************************************************)
Endpoint(route, arg) == [route |-> route, arg |-> arg]

\* result = fetch_api(endpoint, method, data), the request coming back with
\* response
CallEv(endpoint, method, data, response) ==
  [ev |-> "call", endpoint |-> endpoint, method |-> method, data |-> data,
   request |-> Request(endpoint, method, data), response |-> response,
   result |-> fetch_api(method, response)]

StHeader(text) == [ev |-> "header", text |-> text]
StSubheader(text) == [ev |-> "subheader", text |-> text]
StError(value) == [ev |-> "error", value |-> value]
StInfo(text) == [ev |-> "info", text |-> text]
StWarning(text) == [ev |-> "warning", text |-> text]
StSuccess(text, args) == [ev |-> "success", text |-> text, args |-> args]
StMetric(label, value) == [ev |-> "metric", label |-> label, value |-> value]
StDataframe(rows) == [ev |-> "dataframe", rows |-> rows]
StExpander(label) == [ev |-> "expander", label |-> label]
StPlotlyChart(title, traces) == [ev |-> "plotly_chart", title |-> title, traces |-> traces]
StRerun == [ev |-> "rerun"]

\* how a handler ends: it returns, or an exception leaves it (and the run)
\* (over: nothing after it runs), or it goes on to its next statement
Returned(l) == [log |-> l, raised |-> FALSE, over |-> TRUE]
Raised(l) == [log |-> l, raised |-> TRUE, over |-> TRUE]
Continue(l) == [log |-> l, raised |-> FALSE, over |-> FALSE]
\* the statements F after those that gave outcome o
\* F of the value of x, x evaluated once
With(x, F(_)) == CHOOSE r \in {F(v) : v \in {x}} : TRUE
Then(o, F(_)) == With(o, LAMBDA v : IF v.over THEN v ELSE F(v.log))

StocksEndpoint == Endpoint("/stocks/", JNull)

(***************************************************************************)
(* What the backend may answer with.                                       *)
(***************************************************************************)
SymbolOf(i) == CASE i = 1 -> "AAPL" [] i = 2 -> "MSFT" [] i = 3 -> "GOOG" [] OTHER -> "TSLA"
NameOf(i) == CASE i = 1 -> "Apple" [] i = 2 -> "Microsoft" [] i = 3 -> "Alphabet" [] OTHER -> "Tesla"

Stock(i, sector, active) ==
  JObj([id |-> JNum(i), symbol |-> JStr(SymbolOf(i)), name |-> JStr(NameOf(i)),
        sector |-> sector, is_active |-> JBool(active)])

Sectors == {JNull, JStr(""), JStr("Tech"), JStr("Energy")}

\* the stock lists of at most MaxStocks stocks, the i-th with id i
StockLists ==
  UNION {{[i \in 1..n |-> Stock(i, sec[i], act[i])] :
            sec \in [1..n -> Sectors], act \in [1..n -> BOOLEAN]} : n \in 0..MaxStocks}

\* requests that fail: no connection, a 500 with a detail, a 404 with no JSON
FailureResponses ==
  {ConnectionError,
   HttpResponse(500, JObj([detail |-> JStr("Internal Server Error")])),
   HttpResponse(404, NotJson)}

\* 2xx answers that are no list of rows
OddResponses ==
  {HttpResponse(200, JNull),
   HttpResponse(200, JObj([error |-> JStr("backend message")])),
   HttpResponse(200, JObj([detail |-> JStr("ok")])),
   HttpResponse(200, JList(<<JStr("error")>>)),
   HttpResponse(204, NotJson)}

\* stocks is a list of dicts: anything else raises where a stock is used
IsDictList(x) ==
  /\ x.type = "list"
  /\ \A i \in DOMAIN x.items : x.items[i].type = "obj"

HasKeys(x, keys) == x.type = "obj" /\ keys \subseteq DOMAIN x.fields

(***************************************************************************)
(* Dashboard.                                                              *)
(***************************************************************************)
BackendHint == "Make sure the backend API is running on http://localhost:8000"
NoStocksHint == "No stocks in database. Add some stocks from the Stock Management page."

\* the sectors counted when the filter is `is not None`
SectorsNotNone(stocks) ==
  {Get(stocks.items[i], "sector") :
     i \in {j \in DOMAIN stocks.items : Get(stocks.items[j], "sector") # JNull}}

\* set(s.get("sector") for s in stocks if s.get("sector"))
SectorSet(stocks) ==
  {Get(stocks.items[i], "sector") :
     i \in {j \in DOMAIN stocks.items : Truthy(Get(stocks.items[j], "sector"))}}

\* [s for s in stocks if s.get("is_active")]
ActiveStocks(stocks) ==
  SelectSeq(stocks.items, LAMBDA s : Truthy(Get(s, "is_active")))

\* len(stocks): the keys of a dict, the elements of a list
Len_(x) ==
  CASE x.type = "list" -> Len(x.items)
    [] x.type = "obj" -> Cardinality(DOMAIN x.fields)
    [] OTHER -> 1

DisplayCols == <<"symbol", "name", "sector", "industry", "exchange", "is_active">>

\* df[display_cols], display_cols the columns that are in the response
DisplayTable(stocks) ==
  [i \in DOMAIN stocks.items |->
     [c \in {DisplayCols[k] : k \in DOMAIN DisplayCols} \cap DOMAIN stocks.items[i].fields
        |-> stocks.items[i].fields[c]]]

\* show_dashboard with the return after the error and the hint left out: the
\* run goes on to the metrics, and s.get fails on the keys of the error dict
show_dashboard_NoReturn(response) ==
  LET c == CallEv(StocksEndpoint, "GET", NoData, response)
      stocks == c.result
      l1 == <<StHeader("Dashboard"), c>>
  IN IF ~CanContain(stocks) THEN Raised(l1)
     ELSE IF HasError(stocks) THEN
       IF stocks.type # "obj" THEN Raised(l1)
       ELSE Raised(l1 \o <<StError(stocks.fields.error), StInfo(BackendHint),
                            StMetric("Total Stocks", Len_(stocks))>>)
     ELSE IF ~Truthy(stocks) THEN Returned(l1 \o <<StInfo(NoStocksHint)>>)
     ELSE
       LET l2 == l1 \o <<StMetric("Total Stocks", Len_(stocks))>>
       IN IF ~IsDictList(stocks) THEN Raised(l2)
          ELSE Returned(l2 \o
                 <<StMetric("Sectors", Cardinality(SectorSet(stocks))),
                   StMetric("Active Stocks", Len(ActiveStocks(stocks))),
                   StSubheader("Your Stocks"),
                   StDataframe(DisplayTable(stocks))>>)

show_dashboard(response) ==
  LET c == CallEv(StocksEndpoint, "GET", NoData, response)
      stocks == c.result
      l1 == <<StHeader("Dashboard"), c>>
  IN IF ~CanContain(stocks) THEN Raised(l1)
     ELSE IF HasError(stocks) THEN
       IF stocks.type # "obj" THEN Raised(l1)
       ELSE Returned(l1 \o <<StError(stocks.fields.error), StInfo(BackendHint)>>)
     ELSE IF ~Truthy(stocks) THEN Returned(l1 \o <<StInfo(NoStocksHint)>>)
     ELSE
       LET l2 == l1 \o <<StMetric("Total Stocks", Len_(stocks))>>
       IN IF ~IsDictList(stocks) THEN Raised(l2)
          ELSE Returned(l2 \o
                 <<StMetric("Sectors", Cardinality(SectorSet(stocks))),
                   StMetric("Active Stocks", Len(ActiveStocks(stocks))),
                   StSubheader("Your Stocks"),
                   StDataframe(DisplayTable(stocks))>>)

(***************************************************************************)
(* Stock Management.                                                       *)
(***************************************************************************)
Chars == {"a", "B"}
UpperChar(c) == CASE c = "a" -> "A" [] c = "b" -> "B" [] OTHER -> c
\* str.upper()
Upper(chars) == [i \in DOMAIN chars |-> UpperChar(chars[i])]
\* the texts of at most n characters
Texts(n) == UNION {[1..k -> Chars] : k \in 0..n}

\* x or None
OrNone(chars) == IF chars # <<>> THEN PyStr(chars) ELSE JNull

\* date.isoformat()
IsoFormat(date) == IsoDate(<<date.year, date.month, date.day>>)

PeriodOptions == <<"1mo", "3mo", "6mo", "1y", "2y", "5y", "max">>

\* if "error" in result: st.error(result["error"]); else: st.success(...)
\* with result[k] read for every k of keys
ShowResult(l, result, text, keys) ==
  IF ~CanContain(result) THEN Raised(l)
  ELSE IF HasError(result) THEN
    IF result.type # "obj" THEN Raised(l)
    ELSE Continue(l \o <<StError(result.fields.error)>>)
  ELSE IF ~HasKeys(result, {keys[i] : i \in DOMAIN keys}) THEN Raised(l)
  ELSE Continue(l \o <<StSuccess(text, [i \in DOMAIN keys |-> result.fields[keys[i]]])>>)

\* if symbol:
QuickAddValid(w) == w.symbol # <<>>

\* Manual Add checking the symbol alone
ManualAddValid_SymbolOnly(w) == w.m_symbol # <<>>

\* if m_symbol and m_name:
ManualAddValid(w) == w.m_symbol # <<>> /\ w.m_name # <<>>

\* with tab1: Quick Add and Manual Add
AddStockTab(l, w, env) ==
  LET l1 == l \o <<StSubheader("Add New Stock")>>
      quick(la) ==
        IF w.button # "quick_add" THEN Continue(la)
        ELSE IF QuickAddValid(w) THEN
          LET c == CallEv(Endpoint("/stocks/fetch/{symbol}", PyStr(Upper(w.symbol))),
                          "POST", NoData, env.first)
          IN ShowResult(la \o <<c>>, c.result, "Added", <<"symbol", "name">>)
        ELSE Continue(la \o <<StWarning("Please enter a stock symbol")>>)
      manual(la) ==
        IF w.button # "manual_add" THEN Continue(la)
        ELSE IF ManualAddValid(w) THEN
          LET data == JObj([symbol |-> PyStr(Upper(w.m_symbol)),
                            name |-> PyStr(w.m_name),
                            sector |-> OrNone(w.m_sector),
                            industry |-> OrNone(w.m_industry),
                            exchange |-> OrNone(w.m_exchange)])
              c == CallEv(StocksEndpoint, "POST", data, env.first)
          IN ShowResult(la \o <<c>>, c.result, "Added", <<"symbol", "name">>)
        ELSE Continue(la \o <<StWarning("Symbol and Name are required")>>)
  IN Then(quick(l1), manual)

\* for stock in stocks: the expander of each stock and its Delete button
RECURSIVE StockRows(_, _, _, _, _)
StockRows(l, items, i, w, env) ==
  IF i > Len(items) THEN Continue(l)
  ELSE IF ~HasKeys(items[i], {"symbol", "name"}) THEN Raised(l)
  ELSE
    LET stock == items[i]
        l1 == l \o <<StExpander(<<stock.fields.symbol, stock.fields.name>>)>>
    IN IF ~HasKeys(stock, {"id"}) THEN Raised(l1)
       ELSE IF w.button = "delete" /\ JNum(w.delete_id) = stock.fields.id THEN
         LET c == CallEv(Endpoint("/stocks/{id}", stock.fields.id), "DELETE",
                         NoData, env.first)
             l2 == l1 \o <<c>>
         IN IF ~CanContain(c.result) THEN Raised(l2)
            ELSE IF ~HasError(c.result)
              \* st.rerun() ends the run
              THEN Returned(l2 \o <<StSuccess("Deleted!", <<>>), StRerun>>)
            ELSE StockRows(l2, items, i + 1, w, env)
       ELSE StockRows(l1, items, i + 1, w, env)

\* with tab2: View Stocks
ViewStocksTab(l, w, env) ==
  LET c == CallEv(StocksEndpoint, "GET", NoData, env.stocks)
      stocks == c.result
      l1 == l \o <<StSubheader("Your Stocks"), c>>
  IN IF ~CanContain(stocks) THEN Raised(l1)
     ELSE IF HasError(stocks) THEN
       IF stocks.type # "obj" THEN Raised(l1)
       ELSE Continue(l1 \o <<StError(stocks.fields.error)>>)
     ELSE IF ~Truthy(stocks) THEN
       Continue(l1 \o <<StInfo("No stocks found. Add some stocks first!")>>)
     ELSE IF ~IsDictList(stocks) THEN Raised(l1)
     ELSE StockRows(l1, stocks.items, 1, w, env)

\* st.selectbox over n options: the option chosen, the first when the choice
\* is not among them
Selected(w, n) == IF w.selected <= n THEN w.selected ELSE 1

\* the payload of the Fetch Prices button
FetchPricesData(symbol, w) ==
  LET data == [symbol |-> symbol, period |-> JStr(w.period)]
  IN IF w.use_dates
     THEN JObj([start_date |-> IsoFormat(w.start_date),
                end_date |-> IsoFormat(w.end_date)] @@ data)
     ELSE JObj(data)

\* with tab3: Fetch Prices
FetchPricesTab(l, w, env) ==
  LET c == CallEv(StocksEndpoint, "GET", NoData, env.stocks3)
      stocks == c.result
      l1 == l \o <<StSubheader("Fetch Historical Prices"), c>>
  IN IF ~CanContain(stocks) THEN Raised(l1)
     ELSE IF HasError(stocks) THEN
       IF stocks.type # "obj" THEN Raised(l1)
       ELSE Continue(l1 \o <<StError(stocks.fields.error)>>)
     ELSE IF ~Truthy(stocks) THEN
       Continue(l1 \o <<StInfo("No stocks found. Add some stocks first!")>>)
     ELSE IF ~IsDictList(stocks)
             \/ \E i \in DOMAIN stocks.items : ~HasKeys(stocks.items[i], {"symbol", "name"})
       THEN Raised(l1)
     ELSE IF w.button # "fetch_prices" THEN Continue(l1)
     ELSE
       LET symbol == stocks.items[Selected(w, Len(stocks.items))].fields.symbol
           f == CallEv(Endpoint("/prices/fetch", JNull), "POST",
                       FetchPricesData(symbol, w), env.first)
       IN ShowResult(l1 \o <<f>>, f.result, "Fetched", <<"total_fetched", "new_records">>)

show_stock_management(w, env) ==
  LET tab1(l) == AddStockTab(l, w, env)
      tab2(l) == ViewStocksTab(l, w, env)
      tab3(l) == FetchPricesTab(l, w, env)
  IN Then(Then(tab1(<<StHeader("Stock Management")>>), tab2), tab3)

(***************************************************************************)
(* The chart data: rows of a response as a DataFrame, the date column      *)
(* parsed, the rows sorted by date.                                        *)
(***************************************************************************)
\* pd.DataFrame(rows): one record per row, a cell per column
DataFrame(items) == [i \in DOMAIN items |-> items[i].fields]

\* pd.to_datetime of "YYYY-MM-DD": a timestamp, ordered as the calendar is
Timestamp(iso) == [type |-> "datetime", ord |-> (iso[1] * 12 + (iso[2] - 1)) * 31 + iso[3]]

\* df['date'] = pd.to_datetime(df['date'])
ToDatetime(df) == [i \in DOMAIN df |-> [df[i] EXCEPT !.date = Timestamp(@.iso)]]

RECURSIVE Insert(_, _)
\* row put into the sorted rows, before the first row of a later date
Insert(row, sorted) ==
  IF sorted = <<>> THEN <<row>>
  ELSE IF row.date.ord < Head(sorted).date.ord THEN <<row>> \o sorted
  ELSE <<Head(sorted)>> \o Insert(row, Tail(sorted))

\* the rows left in the order the backend sent them
sort_values_Unsorted(df) == df

RECURSIVE sort_values(_)
\* df.sort_values('date'): ascending by date
sort_values(df) ==
  IF df = <<>> THEN <<>>
  ELSE With(sort_values(SubSeq(df, 1, Len(df) - 1)),
            LAMBDA sorted : Insert(df[Len(df)], sorted))

\* df[c]
Column(df, c) == [i \in DOMAIN df |-> df[i][c]]

\* a list of dicts that all have the columns: what DataFrame(x)[c] needs
IsRows(x, cols) ==
  /\ x.type = "list"
  /\ \A i \in DOMAIN x.items : HasKeys(x.items[i], cols)

Trace(name, x, y) == [name |-> name, x |-> x, y |-> y]

(***************************************************************************)
(* Price History.                                                          *)
(***************************************************************************)
NoStocksFound == "No stocks found. Add some stocks first!"

\* stocks = fetch_api("/stocks/") and the two early returns every screen
\* with a stock selector starts with; then the stocks must be dicts with a
\* symbol and a name (stock_options)
FetchStocks(l, env) ==
  LET c == CallEv(StocksEndpoint, "GET", NoData, env.stocks)
      stocks == c.result
      l1 == l \o <<c>>
  IN IF ~CanContain(stocks) THEN Raised(l1)
     ELSE IF HasError(stocks) THEN
       IF stocks.type # "obj" THEN Raised(l1)
       ELSE Returned(l1 \o <<StError(stocks.fields.error)>>)
     ELSE IF ~Truthy(stocks) THEN Returned(l1 \o <<StInfo(NoStocksFound)>>)
     ELSE IF ~IsRows(stocks, {"symbol", "name"}) THEN Raised(l1)
     ELSE Continue(l1)

\* dict.get(key, default)
GetOr(obj, key, default) == IF key \in DOMAIN obj.fields THEN obj.fields[key] ELSE default

\* the statistics block: shown when the stats call gave no error
StatsBlock(l, stock, env) ==
  LET c == CallEv(Endpoint("/prices/{id}/stats", stock.fields.id), "GET", NoData, env.second)
      stats == c.result
      l1 == l \o <<StSubheader("Statistics"), c>>
  IN IF ~CanContain(stats) THEN Raised(l1)
     ELSE IF HasError(stats) THEN Continue(l1)
     ELSE IF stats.type # "obj" THEN Raised(l1)
     ELSE IF \E k \in {"min_price", "max_price", "avg_price"} :
               GetOr(stats, k, JNum(0)).type # "num" THEN Raised(l1)
     ELSE Continue(l1 \o
            <<StMetric("Min Price", GetOr(stats, "min_price", JNum(0))),
              StMetric("Max Price", GetOr(stats, "max_price", JNum(0))),
              StMetric("Avg Price", GetOr(stats, "avg_price", JNum(0))),
              StMetric("Total Records", GetOr(stats, "total_records", JNum(0)))>>)

PriceColumns == {"date", "open_price", "high_price", "low_price", "close_price", "volume"}

\* the price chart, the volume chart and the raw data, all of df
PriceCharts(l, df, stock, w) ==
  LET l1 == l \o <<StSubheader("Price Chart")>>
      fig == IF w.chart_type = "Candlestick"
             THEN <<[name |-> stock.fields.symbol, x |-> Column(df, "date"),
                     open |-> Column(df, "open_price"), high |-> Column(df, "high_price"),
                     low |-> Column(df, "low_price"), close |-> Column(df, "close_price")]>>
             ELSE <<Trace("close_price", Column(df, "date"), Column(df, "close_price"))>>
  IN IF \E i \in DOMAIN df : ~(PriceColumns \subseteq DOMAIN df[i]) THEN Raised(l1)
     ELSE Continue(l1 \o
       <<StPlotlyChart("price", fig),
         StSubheader("Trading Volume"),
         StPlotlyChart("volume", <<Trace("volume", Column(df, "date"), Column(df, "volume"))>>),
         StDataframe(df)>>)

show_price_history(w, env) ==
  LET afterStocks(l) ==
        LET stocks == l[Len(l)].result
            stock == stocks.items[Selected(w, Len(stocks.items))]
            params == JObj([start_date |-> IsoFormat(w.start_date),
                            end_date |-> IsoFormat(w.end_date),
                            limit |-> JNum(w.limit)])
        IN IF ~HasKeys(stock, {"id"}) THEN Raised(l)
           ELSE
             LET c == CallEv(Endpoint("/prices/{id}", stock.fields.id), "GET", params, env.first)
                 prices == c.result
                 l1 == l \o <<c>>
             IN IF ~CanContain(prices) THEN Raised(l1)
                ELSE IF HasError(prices) THEN
                  IF prices.type # "obj" THEN Raised(l1)
                  ELSE Returned(l1 \o <<StError(prices.fields.error)>>)
                ELSE IF ~Truthy(prices) THEN
                  Returned(l1 \o <<StWarning("No price data found. Fetch historical prices from Stock Management.")>>)
                ELSE IF ~IsRows(prices, {"date"}) THEN Raised(l1)
                ELSE
                  With(sort_values(ToDatetime(DataFrame(prices.items))),
                       LAMBDA df :
                         Then(StatsBlock(l1, stock, env),
                              LAMBDA la : PriceCharts(la, df, stock, w)))
  IN Then(FetchStocks(<<StHeader("Price History")>>, env), afterStocks)

(***************************************************************************)
(* Projections.                                                            *)
(***************************************************************************)
\* str.capitalize() of the trend labels
Capitalize(text) ==
  CASE text = "bullish" -> "Bullish" [] text = "bearish" -> "Bearish" [] OTHER -> text

ProjectionKeys == {"last_price", "trend", "daily_change_rate", "r_squared", "projections"}

\* with tab1: Price Projection
ProjectionTab(l, stock, w, env) ==
  LET l1 == l \o <<StSubheader("Price Projection")>>
  IN IF w.button # "proj_btn" THEN Continue(l1)
     ELSE IF ~HasKeys(stock, {"id"}) THEN Raised(l1)
     ELSE
       LET params == JObj([days_ahead |-> JNum(w.days_ahead), lookback_days |-> JNum(w.lookback)])
           c == CallEv(Endpoint("/prices/{id}/projection", stock.fields.id), "GET", params, env.first)
           projection == c.result
           l2 == l1 \o <<c>>
       IN IF ~CanContain(projection) THEN Raised(l2)
          ELSE IF HasError(projection) THEN
            IF projection.type # "obj" THEN Raised(l2)
            ELSE Continue(l2 \o <<StError(projection.fields.error)>>)
          ELSE IF ~HasKeys(projection, ProjectionKeys) THEN Raised(l2)
          ELSE
            LET trend == projection.fields.trend
                l3 == l2 \o
                  <<StMetric("Last Price", projection.fields.last_price),
                    StMetric("Trend", [text |-> Capitalize(trend.text),
                                       delta |-> IF trend = JStr("bullish") THEN "up" ELSE "down"]),
                    StMetric("Daily Change", projection.fields.daily_change_rate),
                    [ev |-> "write", text |-> "R-squared", value |-> projection.fields.r_squared]>>
                rows == projection.fields.projections
            IN IF ~IsRows(rows, {"date"}) \/ rows.items = <<>> THEN Raised(l3)
               ELSE
                 LET proj_df == ToDatetime(DataFrame(rows.items))
                     h == CallEv(Endpoint("/prices/{id}", stock.fields.id), "GET",
                                 JObj([limit |-> JNum(w.lookback)]), env.second)
                     hist_prices == IF IsList(h.result) THEN h.result.items ELSE <<>>
                     l4 == l3 \o <<h>>
                 IN IF hist_prices # <<>> /\ ~IsRows(h.result, {"date", "close_price"})
                    THEN Raised(l4)
                    ELSE IF \E i \in DOMAIN proj_df : "projected_price" \notin DOMAIN proj_df[i]
                    THEN Raised(l4)
                    ELSE
                      LET hist_df == sort_values(ToDatetime(DataFrame(hist_prices)))
                          historical ==
                            IF hist_prices # <<>>
                            THEN <<Trace("Historical", Column(hist_df, "date"),
                                         Column(hist_df, "close_price"))>>
                            ELSE <<>>
                          projected == <<Trace("Projected", Column(proj_df, "date"),
                                               Column(proj_df, "projected_price"))>>
                      IN Continue(l4 \o <<StPlotlyChart("projection", historical \o projected)>>)

NoMovingAverage == "No data available for moving average calculation"

\* with tab2: Moving Average
MovingAverageTab(l, stock, w, env) ==
  LET l1 == l \o <<StSubheader("Moving Average Analysis")>>
  IN IF w.button # "ma_btn" THEN Continue(l1)
     ELSE IF ~HasKeys(stock, {"id"}) THEN Raised(l1)
     ELSE
       LET c == CallEv(Endpoint("/prices/{id}/moving-average", stock.fields.id), "GET",
                       JObj([window |-> JNum(w.window)]), env.first)
           ma_data == c.result
           l2 == l1 \o <<c>>
       IN IF ~CanContain(ma_data) THEN Raised(l2)
          ELSE IF HasError(ma_data) THEN
            IF ma_data.type # "obj" THEN Raised(l2)
            ELSE Continue(l2 \o <<StError(ma_data.fields.error)>>)
          ELSE IF IsList(ma_data) /\ Truthy(ma_data) THEN
            IF ~IsRows(ma_data, {"date", "close_price", "moving_average"}) THEN Raised(l2)
            ELSE
              LET df == ToDatetime(DataFrame(ma_data.items))
              IN Continue(l2 \o
                   <<StPlotlyChart("moving_average",
                       <<Trace("Close Price", Column(df, "date"), Column(df, "close_price")),
                         Trace("MA", Column(df, "date"), Column(df, "moving_average"))>>)>>)
          ELSE Continue(l2 \o <<StWarning(NoMovingAverage)>>)

VolatilityKeys == {"volatility", "avg_daily_return", "price_range_pct", "min_price", "max_price"}

\* with tab3: Volatility
VolatilityTab(l, stock, w, env) ==
  LET l1 == l \o <<StSubheader("Volatility Analysis")>>
  IN IF w.button # "vol_btn" THEN Continue(l1)
     ELSE IF ~HasKeys(stock, {"id"}) THEN Raised(l1)
     ELSE
       LET c == CallEv(Endpoint("/prices/{id}/volatility", stock.fields.id), "GET",
                       JObj([lookback_days |-> JNum(w.vol_lookback)]), env.first)
           volatility == c.result
           l2 == l1 \o <<c>>
       IN IF ~CanContain(volatility) THEN Raised(l2)
          ELSE IF HasError(volatility) THEN
            IF volatility.type # "obj" THEN Raised(l2)
            ELSE Continue(l2 \o <<StError(volatility.fields.error)>>)
          ELSE IF ~HasKeys(volatility, VolatilityKeys) THEN Raised(l2)
          ELSE Continue(l2 \o
                 <<StMetric("Annualized Volatility", volatility.fields.volatility),
                   StMetric("Average Daily Return", volatility.fields.avg_daily_return),
                   StMetric("Price Range", volatility.fields.price_range_pct),
                   StMetric("Min/Max", <<volatility.fields.min_price, volatility.fields.max_price>>)>>)

show_projections(w, env) ==
  LET afterStocks(l) ==
        LET stocks == l[Len(l)].result
            stock == stocks.items[Selected(w, Len(stocks.items))]
            tab1(la) == ProjectionTab(la, stock, w, env)
            tab2(la) == MovingAverageTab(la, stock, w, env)
            tab3(la) == VolatilityTab(la, stock, w, env)
        IN Then(Then(tab1(l), tab2), tab3)
  IN Then(FetchStocks(<<StHeader("Stock Projections & Analysis")>>, env), afterStocks)

(***************************************************************************)
(* Settings.                                                               *)
(***************************************************************************)
show_settings(w, env) ==
  LET l1 == <<StHeader("Settings"), StInfo("API Configuration"),
              [ev |-> "code", text |-> API_BASE_URL], StSubheader("System Status")>>
  IN IF w.button # "health" THEN Continue(l1)
     ELSE
       LET probe == [ev |-> "health", url |-> "http://localhost:8000/health",
                     response |-> env.first]
       IN IF env.first.kind # "http"
          THEN Continue(l1 \o <<probe, StError(JStr("Cannot connect to Backend API"))>>)
          ELSE IF env.first.status = 200
          THEN Continue(l1 \o <<probe, StSuccess("Backend API is running", <<>>)>>)
          ELSE Continue(l1 \o <<probe, StError(JStr("Backend API returned an error"))>>)

Pages == {"Dashboard", "Stock Management", "Price History", "Projections", "Settings"}

\* main(): the handler of the page chosen in the sidebar
main(p, w, env) ==
  CASE p = "Dashboard" -> show_dashboard(env.stocks)
    [] p = "Stock Management" -> show_stock_management(w, env)
    [] p = "Price History" -> show_price_history(w, env)
    [] p = "Projections" -> show_projections(w, env)
    [] p = "Settings" -> show_settings(w, env)

\* one run of the script: the handler's outcome becomes the page
Run(p, w, env) ==
  /\ phase' = "rendered"
  /\ page' = p
  /\ widgets' = w
  /\ \E outcome \in {main(p, w, env)} :
       /\ log' = <<StHeader("Stock Market Finance Application")>> \o outcome.log
       /\ raised' = outcome.raised
  /\ UNCHANGED call

\* what the backend answers in a run: to the stock list fetch, to the stock
\* list fetch of the Fetch Prices tab, to the call behind the pressed button
\* (or the price fetch), and to the call that follows it
Env(stocks, stocks3, first, second) ==
  [stocks |-> stocks, stocks3 |-> stocks3, first |-> first, second |-> second]
\* stands for the response to a call the run does not make
Unused == ConnectionError

DashboardResponses ==
  {HttpResponse(200, JList(l)) : l \in StockLists} \cup FailureResponses \cup OddResponses

Dashboard ==
  /\ phase = "blank"
  /\ \E response \in DashboardResponses :
       Run("Dashboard", NoWidgets, Env(response, Unused, Unused, Unused))

\* the stocks the other screens list: the first n of MaxStocks stocks
ListedStocks(n) ==
  JList([i \in 1..n |-> Stock(i, IF i = 1 THEN JStr("Tech") ELSE JNull, i # 2)])

ListResponses ==
  {HttpResponse(200, ListedStocks(n)) : n \in 0..MaxStocks}
    \cup {ConnectionError,
          HttpResponse(500, JObj([detail |-> JStr("Internal Server Error")])),
          HttpResponse(200, JNull)}
FewListResponses == {HttpResponse(200, ListedStocks(1)), ConnectionError}

DateInputs ==
  {[year |-> 2023, month |-> 12, day |-> 3], [year |-> 2024, month |-> 1, day |-> 2]}
Today == [year |-> 2024, month |-> 2, day |-> 1]

\* the widgets of Stock Management as a run finds them when no one touched them
StockManagementWidgets ==
  [button |-> "none", symbol |-> <<>>, m_symbol |-> <<>>, m_name |-> <<>>,
   m_sector |-> <<>>, m_industry |-> <<>>, m_exchange |-> <<>>, delete_id |-> 0,
   selected |-> 1, period |-> PeriodOptions[1], use_dates |-> FALSE,
   start_date |-> JNull, end_date |-> JNull]

AddResponses ==
  FailureResponses \cup
    {HttpResponse(201, Stock(1, JStr("Tech"), TRUE)),
     HttpResponse(200, JObj([error |-> JStr("backend message")])),
     HttpResponse(204, NotJson)}

StockManagementIdle ==
  /\ phase = "blank"
  /\ \E stocks \in ListResponses, stocks3 \in ListResponses :
       Run("Stock Management", StockManagementWidgets, Env(stocks, stocks3, Unused, Unused))

QuickAdd ==
  /\ phase = "blank"
  /\ \E symbol \in Texts(MaxSymbolLen), first \in AddResponses,
        stocks \in FewListResponses, stocks3 \in FewListResponses :
       LET w == [StockManagementWidgets EXCEPT !.button = "quick_add", !.symbol = symbol]
       IN Run("Stock Management", w, Env(stocks, stocks3, first, Unused))

ManualAdd ==
  /\ phase = "blank"
  /\ \E m_symbol \in Texts(MaxSymbolLen), m_name \in Texts(1), m_sector \in Texts(1),
        m_other \in Texts(1), first \in AddResponses, stocks \in FewListResponses :
       LET w == [StockManagementWidgets EXCEPT
                   !.button = "manual_add", !.m_symbol = m_symbol, !.m_name = m_name,
                   !.m_sector = m_sector, !.m_industry = m_other, !.m_exchange = m_other]
       IN Run("Stock Management", w, Env(stocks, stocks, first, Unused))

DeleteResponses ==
  FailureResponses \cup
    {HttpResponse(204, NotJson), HttpResponse(200, JNull),
     HttpResponse(200, JObj([error |-> JStr("backend message")]))}

DeleteStock ==
  /\ phase = "blank"
  /\ \E delete_id \in 1..MaxStocks, stocks \in ListResponses, first \in DeleteResponses,
        stocks3 \in ListResponses :
       LET w == [StockManagementWidgets EXCEPT !.button = "delete", !.delete_id = delete_id]
       IN Run("Stock Management", w, Env(stocks, stocks3, first, Unused))

FetchResponses ==
  FailureResponses \cup
    {HttpResponse(200, JObj([total_fetched |-> JNum(20), new_records |-> JNum(5)])),
     HttpResponse(200, JObj([error |-> JStr("backend message")])),
     HttpResponse(200, JNull)}

FetchPrices ==
  /\ phase = "blank"
  /\ \E selected \in 1..MaxStocks, period \in {PeriodOptions[1], PeriodOptions[7]},
        use_dates \in BOOLEAN, start_date \in DateInputs,
        stocks \in FewListResponses, stocks3 \in ListResponses, first \in FetchResponses :
       LET w == [StockManagementWidgets EXCEPT
                   !.button = "fetch_prices", !.selected = selected, !.period = period,
                   !.use_dates = use_dates,
                   !.start_date = IF use_dates THEN start_date ELSE JNull,
                   !.end_date = IF use_dates THEN Today ELSE JNull]
       IN Run("Stock Management", w, Env(stocks, stocks3, first, Unused))

\* the dates of the rows the backend returns
Dates == {<<2023, 12, 3>>, <<2024, 1, 2>>, <<2024, 1, 10>>, <<2024, 2, 1>>}

\* at most MaxRows dates, one row per date, in any order
DateSeqs ==
  {q \in UNION {[1..n -> Dates] : n \in 0..MaxRows} :
     \A i, j \in DOMAIN q : i # j => q[i] # q[j]}

PriceRecord(d) ==
  JObj([date |-> IsoDate(d), open_price |-> JNum(100 + d[3]), high_price |-> JNum(110 + d[3]),
        low_price |-> JNum(90 + d[3]), close_price |-> JNum(105 + d[3]),
        volume |-> JNum(1000 * d[2])])
ProjectionRow(d) == JObj([date |-> IsoDate(d), projected_price |-> JNum(200 + d[3])])
MovingAverageRow(d) ==
  JObj([date |-> IsoDate(d), close_price |-> JNum(105 + d[3]), moving_average |-> JNum(100 + d[2])])

Rows(Row(_), q) == JList([i \in DOMAIN q |-> Row(q[i])])

Projection(trend, q) ==
  JObj([last_price |-> JNum(150), trend |-> JStr(trend), daily_change_rate |-> JNum(1),
        r_squared |-> JNum(1), projections |-> Rows(ProjectionRow, q)])

DefaultLimit == 200
DefaultDaysAhead == 30
DefaultLookback == 90
DefaultWindow == 20
DefaultVolLookback == 30

PriceHistoryWidgets ==
  [button |-> "none", selected |-> 1, start_date |-> Today, end_date |-> Today,
   limit |-> DefaultLimit, chart_type |-> "Candlestick"]

PriceResponses ==
  {HttpResponse(200, Rows(PriceRecord, q)) : q \in DateSeqs}
    \cup FailureResponses \cup OddResponses
StatsResponses ==
  FailureResponses \cup
    {HttpResponse(200, JObj([min_price |-> JNum(91), max_price |-> JNum(120),
                             avg_price |-> JNum(105), total_records |-> JNum(4)])),
     HttpResponse(200, JNull)}

PriceHistory ==
  /\ phase = "blank"
  /\ \E selected \in 1..MaxStocks, start_date \in DateInputs,
        chart_type \in {"Candlestick", "Line"}, stocks \in ListResponses,
        first \in PriceResponses, second \in StatsResponses :
       LET w == [PriceHistoryWidgets EXCEPT !.selected = selected,
                   !.start_date = start_date, !.chart_type = chart_type]
       IN Run("Price History", w, Env(stocks, Unused, first, second))

ProjectionsWidgets ==
  [button |-> "none", selected |-> 1, days_ahead |-> DefaultDaysAhead,
   lookback |-> DefaultLookback, window |-> DefaultWindow,
   vol_lookback |-> DefaultVolLookback]

ProjectionsIdle ==
  /\ phase = "blank"
  /\ \E selected \in 1..MaxStocks, stocks \in ListResponses :
       LET w == [ProjectionsWidgets EXCEPT !.selected = selected]
       IN Run("Projections", w, Env(stocks, Unused, Unused, Unused))

ProjectionResponses ==
  {HttpResponse(200, Projection(trend, q)) : trend \in {"bullish", "bearish"}, q \in DateSeqs}
    \cup FailureResponses
    \cup {HttpResponse(200, JNull), HttpResponse(200, JObj([error |-> JStr("backend message")]))}
HistoryResponses ==
  {HttpResponse(200, Rows(PriceRecord, q)) : q \in DateSeqs}
    \cup FailureResponses
    \cup {HttpResponse(200, JNull), HttpResponse(200, JObj([error |-> JStr("backend message")]))}

CalculateProjection ==
  /\ phase = "blank"
  /\ \E stocks \in FewListResponses, first \in ProjectionResponses, second \in HistoryResponses :
       LET w == [ProjectionsWidgets EXCEPT !.button = "proj_btn"]
       IN Run("Projections", w, Env(stocks, Unused, first, second))

MovingAverageResponses ==
  {HttpResponse(200, Rows(MovingAverageRow, q)) : q \in DateSeqs}
    \cup FailureResponses \cup OddResponses

CalculateMovingAverage ==
  /\ phase = "blank"
  /\ \E selected \in 1..MaxStocks, stocks \in ListResponses, first \in MovingAverageResponses :
       LET w == [ProjectionsWidgets EXCEPT !.button = "ma_btn", !.selected = selected]
       IN Run("Projections", w, Env(stocks, Unused, first, Unused))

VolatilityResponses ==
  FailureResponses \cup
    {HttpResponse(200, JObj([volatility |-> JNum(25), avg_daily_return |-> JNum(1),
                             price_range_pct |-> JNum(12), min_price |-> JNum(91),
                             max_price |-> JNum(120)])),
     HttpResponse(200, JNull), HttpResponse(204, NotJson)}

CalculateVolatility ==
  /\ phase = "blank"
  /\ \E stocks \in FewListResponses, first \in VolatilityResponses :
       LET w == [ProjectionsWidgets EXCEPT !.button = "vol_btn"]
       IN Run("Projections", w, Env(stocks, Unused, first, Unused))

HealthResponses ==
  {HttpResponse(200, JObj([status |-> JStr("healthy")])), HttpResponse(500, NotJson),
   ConnectionError}

Settings ==
  /\ phase = "blank"
  /\ \E button \in {"none", "health"}, first \in HealthResponses :
       LET w == [button |-> button]
       IN Run("Settings", w, Env(Unused, Unused, IF button = "none" THEN Unused ELSE first, Unused))

Next ==
  \/ Dashboard
  \/ PriceHistory
  \/ ProjectionsIdle
  \/ CalculateProjection
  \/ CalculateMovingAverage
  \/ CalculateVolatility
  \/ Settings
  \/ StockManagementIdle
  \/ QuickAdd
  \/ ManualAdd
  \/ DeleteStock
  \/ FetchPrices
  \/ Rerun

Spec == Init /\ [][Next]_vars

(***************************************************************************)
(* Claims about the Dashboard.                                             *)
(***************************************************************************)
Rendered(p) == phase = "rendered" /\ page = p

\* st.metric(label, value) was called in the run
HasMetric(label, value) ==
  \E i \in DOMAIN log :
    log[i].ev = "metric" /\ log[i].label = label /\ log[i].value = value

\* the run fetched, without error, a non-empty list of stocks
C10_FetchedStocks ==
  /\ Rendered("Dashboard")
  /\ log[3].response.kind = "http"
  /\ log[3].response.status \in {200, 201}
  /\ log[3].result.type = "list"
  /\ log[3].result.items # <<>>
  /\ \A i \in DOMAIN log[3].result.items :
       HasKeys(log[3].result.items[i], {"sector", "is_active"})

C10_Items == log[3].result.items

\* C10 as stated: for every non-empty stock list fetched without error the
\* three metrics are the number of stocks, the number of distinct non-null
\* sector values (an empty-string sector counted), and the number of stocks
\* whose is_active is true.
C10_NonNullSectors ==
  C10_FetchedStocks =>
    /\ HasMetric("Total Stocks", Len(C10_Items))
    /\ HasMetric("Sectors",
         Cardinality({C10_Items[i].fields.sector :
            i \in {j \in DOMAIN C10_Items : C10_Items[j].fields.sector # JNull}}))
    /\ HasMetric("Active Stocks",
         Cardinality({i \in DOMAIN C10_Items : C10_Items[i].fields.is_active = JBool(TRUE)}))

\* C10 amended: the second metric is the number of distinct sector values
\* that are neither null nor the empty string; the other two are as stated.
C10_NonEmptySectors ==
  C10_FetchedStocks =>
    /\ ~raised
    /\ HasMetric("Total Stocks", Len(C10_Items))
    /\ HasMetric("Sectors",
         Cardinality({C10_Items[i].fields.sector :
            i \in {j \in DOMAIN C10_Items :
                     C10_Items[j].fields.sector \notin {JNull, JStr("")}}}))
    /\ HasMetric("Active Stocks",
         Cardinality({i \in DOMAIN C10_Items : C10_Items[i].fields.is_active = JBool(TRUE)}))

\* two stocks, one with an empty-string sector and one with a named sector:
\* one sector is counted
C10_Witness ==
  /\ C10_FetchedStocks
  /\ Len(C10_Items) = 2
  /\ C10_Items[1].fields.sector = JStr("")
  /\ C10_Items[2].fields.sector = JStr("Tech")
  /\ HasMetric("Sectors", 1)
  /\ HasMetric("Active Stocks", 1)

(***************************************************************************)
(* Claims about Stock Management.                                          *)
(***************************************************************************)
\* the positions in log of the gateway calls with this method and route
Calls(method, route) ==
  {i \in DOMAIN log :
     log[i].ev = "call" /\ log[i].method = method /\ log[i].endpoint.route = route}

HasWarning(text) == \E i \in DOMAIN log : log[i].ev = "warning" /\ log[i].text = text

\* C5: in Fetch Prices the period preset and the custom date range exclude
\* each other in the request: with "Use custom date range" checked the
\* payload POSTed to /prices/fetch has start_date and end_date (ISO dates)
\* and no period; unchecked, it has symbol and period and no start_date or
\* end_date.
C5_PresetXorCustomRange ==
  Rendered("Stock Management") =>
    \A i \in Calls("POST", "/prices/fetch") :
      LET data == log[i].request.json.fields
      IN IF widgets.use_dates
         THEN /\ data.start_date = IsoDate(<<widgets.start_date.year,
                                             widgets.start_date.month,
                                             widgets.start_date.day>>)
              /\ data.end_date = IsoDate(<<widgets.end_date.year,
                                           widgets.end_date.month,
                                           widgets.end_date.day>>)
              /\ "period" \notin DOMAIN data
         ELSE DOMAIN data = {"symbol", "period"}

\* C7: Quick add with an empty symbol, and Manual add with an empty symbol
\* or an empty name, warn and issue no add request (no POST to
\* /stocks/fetch/{symbol} nor to /stocks/) in that run; Quick add with a
\* non-empty symbol issues exactly one POST, its path carrying the symbol in
\* upper case.
C7_UpperCase == [a |-> "A", B |-> "B"]

C7_ValidatedBeforeCall ==
  Rendered("Stock Management") =>
    LET adds == Calls("POST", "/stocks/fetch/{symbol}") \cup Calls("POST", "/stocks/")
    IN /\ (widgets.button = "quick_add" /\ widgets.symbol = <<>>)
            => adds = {} /\ HasWarning("Please enter a stock symbol")
       /\ (widgets.button = "manual_add"
             /\ (widgets.m_symbol = <<>> \/ widgets.m_name = <<>>))
            => adds = {} /\ HasWarning("Symbol and Name are required")
       /\ (widgets.button = "quick_add" /\ widgets.symbol # <<>>)
            => /\ Cardinality({i \in DOMAIN log : log[i].ev = "call" /\ log[i].method = "POST"}) = 1
               /\ \E i \in Calls("POST", "/stocks/fetch/{symbol}") :
                    /\ Len(log[i].endpoint.arg.chars) = Len(widgets.symbol)
                    /\ \A k \in DOMAIN widgets.symbol :
                         log[i].endpoint.arg.chars[k] = C7_UpperCase[widgets.symbol[k]]

C7_Witness ==
  /\ Rendered("Stock Management")
  /\ widgets.button = "manual_add"
  /\ widgets.m_symbol = <<"a", "B">>
  /\ widgets.m_name = <<>>
  /\ HasWarning("Symbol and Name are required")
  /\ Calls("POST", "/stocks/") = {}

(***************************************************************************)
(* Claims about the chart data.                                            *)
(***************************************************************************)
\* the first event of the run with this kind and title
Chart(title) ==
  log[CHOOSE i \in DOMAIN log : log[i].ev = "plotly_chart" /\ log[i].title = title]
HasChart(title) == \E i \in DOMAIN log : log[i].ev = "plotly_chart" /\ log[i].title = title

\* calendar order of two dates given as <<year, month, day>>
C9_Before(a, b) ==
  \/ a[1] < b[1]
  \/ a[1] = b[1] /\ a[2] < b[2]
  \/ a[1] = b[1] /\ a[2] = b[2] /\ a[3] < b[3]

\* the price rows the backend returned in the run, and the table shown
C9_Input == log[CHOOSE i \in Calls("GET", "/prices/{id}") : TRUE].response.body.items
C9_Table == log[CHOOSE i \in DOMAIN log : log[i].ev = "dataframe"].rows

\* row of the table is the returned row item, its date parsed
C9_SameRow(row, item) ==
  /\ row.date.type = "datetime"
  /\ \A c \in {"open_price", "high_price", "low_price", "close_price", "volume"} :
       row[c] = item.fields[c]

\* C9: whatever the order of the price rows the backend returns, the price
\* chart, the volume chart and the raw-data table of Price History show one
\* and the same series, the returned rows in non-decreasing order of date;
\* rows returned in that order already are shown in the order returned.
C9_SortedSeries ==
  (Rendered("Price History") /\ HasChart("price")) =>
    LET n == Len(C9_Input)
    IN /\ HasChart("volume")
       /\ Len(C9_Table) = n
       /\ Chart("price").traces[1].x = [i \in 1..n |-> C9_Table[i].date]
       /\ IF widgets.chart_type = "Candlestick"
          THEN Chart("price").traces[1].close = [i \in 1..n |-> C9_Table[i].close_price]
          ELSE Chart("price").traces[1].y = [i \in 1..n |-> C9_Table[i].close_price]
       /\ Chart("volume").traces[1].x = [i \in 1..n |-> C9_Table[i].date]
       /\ Chart("volume").traces[1].y = [i \in 1..n |-> C9_Table[i].volume]
       /\ \E f \in [1..n -> 1..n] :
            /\ \A i, j \in 1..n : i # j => f[i] # f[j]
            /\ \A i \in 1..n : C9_SameRow(C9_Table[i], C9_Input[f[i]])
            /\ \A i, j \in 1..n :
                 i < j => ~C9_Before(C9_Input[f[j]].fields.date.iso,
                                     C9_Input[f[i]].fields.date.iso)
       /\ (\A i, j \in 1..n :
             i < j => ~C9_Before(C9_Input[j].fields.date.iso, C9_Input[i].fields.date.iso))
            => \A i \in 1..n : C9_SameRow(C9_Table[i], C9_Input[i])

\* 2024-01-10, 2023-12-03, 2024-01-02 returned in this order and charted as
\* 2023-12-03, 2024-01-02, 2024-01-10
C9_Witness ==
  /\ Rendered("Price History")
  /\ HasChart("price")
  /\ Len(C9_Input) = 3
  /\ C9_Input[1].fields.date.iso = <<2024, 1, 10>>
  /\ C9_Input[2].fields.date.iso = <<2023, 12, 3>>
  /\ C9_Input[3].fields.date.iso = <<2024, 1, 2>>
  /\ C9_Table[1].close_price = C9_Input[2].fields.close_price
  /\ C9_Table[2].close_price = C9_Input[3].fields.close_price
  /\ C9_Table[3].close_price = C9_Input[1].fields.close_price

\* C3: in the Projections screen the moving-average series and the
\* projected-points series handed to the chart are in ascending order of date
\* whatever the order of the rows the backend returned, as the historical
\* close series is.
C3_SeriesSorted ==
  Rendered("Projections") =>
    \A k \in DOMAIN log :
      log[k].ev = "plotly_chart" =>
        \A t \in DOMAIN log[k].traces :
          \A i, j \in DOMAIN log[k].traces[t].x :
            i < j => log[k].traces[t].x[i].ord <= log[k].traces[t].x[j].ord

(***************************************************************************)
(* Claims about errors.                                                    *)
(***************************************************************************)
\* the call at position i of log returned an error value
ErrorAt(i) == log[i].ev = "call" /\ IsErrorMapping(log[i].result)
\* the request of the call at position i failed: no 200, 201 or 204 came back
FailedAt(i) ==
  /\ log[i].ev = "call"
  /\ \/ log[i].response.kind # "http"
     \/ log[i].response.status \notin {200, 201, 204}

IsStocksFetch(e) == e.ev = "call" /\ e.method = "GET" /\ e.endpoint.route = "/stocks/"
IsPricesFetch(e) == e.ev = "call" /\ e.method = "GET" /\ e.endpoint.route = "/prices/{id}"

\* after the call at position i: its error, then at most the backend hint
StopsAfter(i) ==
  /\ Len(log) >= i + 1
  /\ log[i + 1] = [ev |-> "error", value |-> log[i].result.fields.error]
  /\ \A j \in (i + 2)..Len(log) : log[j].ev = "info" /\ log[j].text = BackendHint
  /\ ~raised

\* C4 as stated: after a gateway error on a screen's primary data fetch the
\* handler renders the error, makes no further gateway call and renders no
\* other part of the screen; so on every screen, Stock Management and the
\* stock list fetch of its View Stocks tab included.
C4_EveryScreenStops ==
  phase = "rendered" =>
    \A i \in DOMAIN log :
      (ErrorAt(i) /\ (IsStocksFetch(log[i]) \/ (page = "Price History" /\ IsPricesFetch(log[i]))))
        => StopsAfter(i)

\* C4 amended: Dashboard, Price History and Projections stop so after an
\* error of the stock list fetch (Price History after an error of its price
\* fetch too).  In Stock Management an error of a tab's stock list fetch ends
\* that tab only: the tab shows the error, no stock row and no Delete or
\* Fetch Prices call follows in it; after the View Stocks tab the run goes on
\* with the Fetch Prices tab and its own stock list fetch.
C4_ScreenOrTabStops ==
  phase = "rendered" =>
    \A i \in DOMAIN log :
      /\ (page \in {"Dashboard", "Price History", "Projections"} /\ ErrorAt(i)
            /\ (IsStocksFetch(log[i]) \/ (page = "Price History" /\ IsPricesFetch(log[i]))))
           => StopsAfter(i)
      /\ (page = "Stock Management" /\ ErrorAt(i) /\ IsStocksFetch(log[i])) =>
           /\ log[i + 1] = [ev |-> "error", value |-> log[i].result.fields.error]
           /\ IF log[i - 1] = [ev |-> "subheader", text |-> "Your Stocks"]
              THEN /\ Len(log) >= i + 3
                   /\ log[i + 2] = [ev |-> "subheader", text |-> "Fetch Historical Prices"]
                   /\ IsStocksFetch(log[i + 3])
                   /\ \A j \in DOMAIN log : log[j].ev # "expander"
                   /\ \A j \in DOMAIN log : log[j].ev = "call" => log[j].method # "DELETE"
              ELSE /\ Len(log) = i + 1
                   /\ Calls("POST", "/prices/fetch") = {}

\* the stock list fetch of View Stocks fails, the one of Fetch Prices gives
\* a stock, and the Fetch Prices button posts its request
C4_Witness ==
  /\ Rendered("Stock Management")
  /\ \E i \in DOMAIN log :
       /\ IsStocksFetch(log[i]) /\ ErrorAt(i) /\ FailedAt(i)
       /\ log[i - 1] = [ev |-> "subheader", text |-> "Your Stocks"]
       /\ log[i + 3].result.type = "list"
  /\ Calls("POST", "/prices/fetch") # {}

\* C6: every gateway call that returns an error value has its message shown
\* (st.error, verbatim) in the same run: the DELETE of a stock in View Stocks,
\* the price-stats fetch of Price History and the historical-prices fetch of
\* Projections included.
C6_EveryErrorShown ==
  phase = "rendered" =>
    \A i \in DOMAIN log :
      (ErrorAt(i) /\ FailedAt(i)) =>
        \E j \in DOMAIN log :
          j > i /\ log[j] = [ev |-> "error", value |-> log[i].result.fields.error]

\* C8: in the Moving average tab a result that is an empty list, or is not a
\* list, gives the "no data" warning and no chart; a chart is rendered only
\* for a non-empty list.
C8_WarningUnlessRows ==
  Rendered("Projections") =>
    \A i \in Calls("GET", "/prices/{id}/moving-average") :
      /\ (~FailedAt(i) /\ (log[i].result.type # "list" \/ log[i].result.items = <<>>))
           => HasWarning(NoMovingAverage) /\ ~HasChart("moving_average")
      /\ HasChart("moving_average")
           => log[i].result.type = "list" /\ log[i].result.items # <<>>

\* the request of the call at position i came back 200 or 201 with a JSON body
SucceededAt(i) ==
  /\ log[i].ev = "call"
  /\ log[i].response.kind = "http"
  /\ log[i].response.status \in {200, 201}
  /\ log[i].response.body # NotJson

\* the handler called st.error right after the call at position i
TreatedAsError(i) == i + 1 <= Len(log) /\ log[i + 1].ev = "error"

\* an exception ended the run while the result of the call at position i, the
\* last call of the run, was being handled
RaisedAfter(i) == raised /\ \A j \in DOMAIN log : j > i => log[j].ev # "call"

\* C11: a handler treats a gateway result as an error only if the call
\* failed: after a 200 or 201 response, whatever its decoded JSON body (an
\* object with an "error" key and a list included), the handler renders no
\* error and raises no exception.
C11_ErrorOnlyIfFailed ==
  phase = "rendered" =>
    \A i \in DOMAIN log :
      SucceededAt(i) => ~TreatedAsError(i) /\ ~RaisedAfter(i)

====
